---- MODULE Spec2Model ----
(***************************************************************************)
(* Model of the two leaderboard utilities:                                 *)
(*   App_add_ids.py               join mode  (attach batter_id)            *)
(*   Append_yesterday_to_merged.py merge mode (append and de-duplicate)    *)
(* Text values (names, team codes, identifiers) are sequences of           *)
(* one-character strings, so that the normalisations are computed as the   *)
(* code computes them.                                                     *)
(***************************************************************************)
EXTENDS Integers, Sequences, FiniteSets, TLC

VARIABLES
    \* ---- join mode (App_add_ids.py)
    lb,         \* uploaded leaderboard: [cols, rows]
    maps,       \* uploaded mapping files, in upload order
    pc,         \* position in the script
    lbn,        \* leaderboard with the three normalised columns
    idmaps,     \* per-file identifier maps that normalize_map returned
    errors,     \* "Map i: ..." entries: the indices of the skipped files
    idmap,      \* the combined identifier map
    m1,         \* the merged table
    need,       \* mask of rows without identifier after stage 1
    output,     \* the exported table, NoOutput until the download is offered
    message,    \* the st.info / st.error / exception that ended the run, or None
    \* ---- merge mode (Append_yesterday_to_merged.py)
    merged_raw, \* uploaded accumulated table: [cols, rows]
    yday_raw,   \* uploaded new-day table: [cols, rows]
    merged_df,  \* normalize(merged_raw)
    yday_df,    \* normalize(yday_raw)
    pcM,        \* position in the script
    outM,       \* result of dedupe_concat
    outputM,    \* the exported table, NoOutput until the download is offered
    messageM,   \* the st.error / exception that ended the run, or None
    \* ---- clean_name on two spellings of one name
    nameA,      \* a name
    nameB,      \* a spelling variant of nameA
    edits,      \* number of spelling changes applied to nameB
    canonA,     \* clean_name(nameA)
    canonB,     \* clean_name(nameB)
    pcN

joinVars  == <<lb, maps, pc, lbn, idmaps, errors, idmap, m1, need, output, message>>
mergeVars == <<merged_raw, yday_raw, merged_df, yday_df, pcM, outM, outputM, messageM>>
nameVars  == <<nameA, nameB, edits, canonA, canonB, pcN>>
vars      == <<joinVars, mergeVars, nameVars>>

(***************************************************************************)
(* Values shared by the scripts                                            *)
(***************************************************************************)
\* a missing cell (numpy NaN / pd.NA) of a text column
NaN == <<"NaN">>
\* a missing date (pd.NaT)
NaT == [y |-> 0, m |-> 0, d |-> 0]
\* nothing has been offered for download
NoOutput == <<[offered |-> FALSE]>>

\* no run-ending message
None == "none"

\* pd.isna of a text cell
isna(v) == v = NaN

\* a function on 1..n as an explicit sequence (evaluated once, element by element)
AsSeq(f) == <<>> \o f

\* boolean indexing, s[keep]: the rows of s whose entry of keep is True, in order
SelectIdx(s, keep) ==
    LET upTo[n \in 0..Len(s)] ==
            IF n = 0 THEN <<>>
            ELSE IF keep[n] THEN Append(upTo[n - 1], s[n]) ELSE upTo[n - 1]
    IN  upTo[Len(s)]

\* concatenation of a sequence of sequences
RECURSIVE Flatten(_)
Flatten(ss) == IF ss = <<>> THEN <<>> ELSE Head(ss) \o Flatten(Tail(ss))

\* DataFrame.drop_duplicates(subset=key columns, keep="last"); keys[i] is the
\* value of the key columns in rows[i]
DropDuplicatesLast(rows, keys) ==
    SelectIdx(rows, [i \in 1..Len(rows) |-> \A j \in (i + 1)..Len(rows) : keys[j] # keys[i]])

(***************************************************************************)
(* Text helpers (str methods and the regular expressions of clean_name)    *)
(***************************************************************************)
LowerChars == <<"a","b","c","d","e","f","g","h","i","j","k","l","m",
                "n","o","p","q","r","s","t","u","v","w","x","y","z">>
UpperChars == <<"A","B","C","D","E","F","G","H","I","J","K","L","M",
                "N","O","P","Q","R","S","T","U","V","W","X","Y","Z">>

\* \s of the re module and the characters str.strip() removes
WhiteSpace == {" ", "\t", "\n"}

\* the character class [\.\-'] of clean_name
Punctuation == {".", "-", "'"}

\* unidecode of one character: the ASCII transliteration
UnidecodeChar(c) ==
    CASE c = "é" -> <<"e">>
      [] c = "É" -> <<"E">>
      [] c = "í" -> <<"i">>
      [] c = "ñ" -> <<"n">>
      [] OTHER   -> <<c>>

unidecode(s) == Flatten([i \in 1..Len(s) |-> UnidecodeChar(s[i])])

\* str.upper() and str.lower(), letter by letter
UpperOf == [c \in {LowerChars[i] : i \in 1..Len(LowerChars)} |->
              UpperChars[CHOOSE i \in 1..Len(LowerChars) : LowerChars[i] = c]]

LowerOf == [c \in {UpperChars[i] : i \in 1..Len(UpperChars)} |->
              LowerChars[CHOOSE i \in 1..Len(UpperChars) : UpperChars[i] = c]]

UpperChar(c) == IF c \in DOMAIN UpperOf THEN UpperOf[c] ELSE c

upper(s) == AsSeq([i \in 1..Len(s) |-> UpperChar(s[i])])

RECURSIVE lstrip(_)
lstrip(s) == IF s # <<>> /\ Head(s) \in WhiteSpace THEN lstrip(Tail(s)) ELSE s

RECURSIVE rstrip(_)
rstrip(s) ==
    IF s # <<>> /\ s[Len(s)] \in WhiteSpace THEN rstrip(SubSeq(s, 1, Len(s) - 1)) ELSE s

strip(s) == lstrip(rstrip(s))

endswith(s, suf) ==
    /\ Len(suf) <= Len(s)
    /\ SubSeq(s, Len(s) - Len(suf) + 1, Len(s)) = suf

\* re.sub(r"[\.\-']", " ", s)
PunctToSpace(s) ==
    AsSeq([i \in 1..Len(s) |-> IF s[i] \in Punctuation THEN " " ELSE s[i]])

\* re.sub(r"\s+", " ", s)
CollapseSpace(s) ==
    LET blank(i) == s[i] \in WhiteSpace
        kept == SelectIdx([i \in 1..Len(s) |-> i],
                          [i \in 1..Len(s) |-> ~blank(i) \/ i = 1 \/ ~blank(i - 1)])
    IN  AsSeq([k \in 1..Len(kept) |-> IF blank(kept[k]) THEN " " ELSE s[kept[k]]])

\* the list the loop of clean_name runs through, in its order
Suffixes == << <<",", " ", "J", "R">>, <<" ", "J", "R">>, <<" ", "J", "R", ".">>,
               <<",", " ", "S", "R">>, <<" ", "S", "R">>, <<" ", "S", "R", ".">>,
               <<" ", "I", "I">>, <<" ", "I", "I", "I">>, <<" ", "I", "V">> >>

RECURSIVE StripSuffixes(_, _)
StripSuffixes(s, k) ==
    IF k > Len(Suffixes) THEN s
    ELSE LET suf == Suffixes[k]
         IN  StripSuffixes(IF endswith(s, suf) THEN SubSeq(s, 1, Len(s) - Len(suf)) ELSE s,
                           k + 1)

clean_name(s) ==
    IF isna(s) THEN <<>>
    ELSE strip(StripSuffixes(CollapseSpace(PunctToSpace(strip(upper(unidecode(s))))), 1))

std_team(s) == IF isna(s) THEN <<>> ELSE upper(strip(s))

safe_str_id(s) ==
    IF isna(s) THEN <<>>
    ELSE LET v == strip(s)
         IN  IF endswith(v, <<".", "0">>) THEN SubSeq(v, 1, Len(v) - 2) ELSE v

\* Series.astype(str): a missing cell becomes the text "nan"
astype_str(v) == IF isna(v) THEN <<"n", "a", "n">> ELSE v

(***************************************************************************)
(* clean_name on two spellings of one name                                 *)
(***************************************************************************)
MaxEdits == 3

AJSmith == <<"A", "J", " ", "S", "m", "i", "t", "h">>
JoseDoe == <<"J", "o", "s", "e", " ", "D", "o", "e">>
BaseNames == {AJSmith, JoseDoe}

\* the generational suffixes as a user may type them at the end of a name
TypedSuffixes == { <<" ", "J", "r">>, <<" ", "J", "r", ".">>, <<",", " ", "J", "r">>,
                   <<",", " ", "J", "r", ".">>, <<" ", "S", "R">>, <<" ", "S", "r", ".">>,
                   <<" ", "I", "I">>, <<" ", "I", "I", "I">>, <<" ", "I", "V">> }

Accented(c) ==
    CASE c = "e" -> "é"
      [] c = "E" -> "É"
      [] c = "i" -> "í"
      [] c = "n" -> "ñ"
      [] OTHER   -> c

SwapCase(c) ==
    IF c \in DOMAIN UpperOf THEN UpperOf[c]
    ELSE IF c \in DOMAIN LowerOf THEN LowerOf[c] ELSE c

InsertAt(s, i, c) == SubSeq(s, 1, i - 1) \o <<c>> \o SubSeq(s, i, Len(s))

\* no suffix has been typed yet: the variant still has the letters of the name
NoSuffixYet == \A suf \in TypedSuffixes : ~endswith(nameB, suf)

InitName ==
    /\ nameA \in BaseNames
    /\ nameB = nameA
    /\ edits = 0
    /\ canonA = <<>>
    /\ canonB = <<>>
    /\ pcN = "typing"

IdleName ==
    /\ nameA = <<>>
    /\ nameB = <<>>
    /\ edits = 0
    /\ canonA = <<>>
    /\ canonB = <<>>
    /\ pcN = "idle"

Edited(s) ==
    /\ pcN = "typing"
    /\ edits < MaxEdits
    /\ s # nameB
    /\ nameB' = s
    /\ edits' = edits + 1
    /\ UNCHANGED <<nameA, canonA, canonB, pcN>>
    /\ UNCHANGED <<joinVars, mergeVars>>

\* the variant differs in the case of one letter
ChangeCase == \E i \in 1..Len(nameB) : Edited([nameB EXCEPT ![i] = SwapCase(nameB[i])])

\* the variant differs in an accent on one letter
ChangeAccent == \E i \in 1..Len(nameB) : Edited([nameB EXCEPT ![i] = Accented(nameB[i])])

\* the variant has one more period, hyphen or apostrophe
AddPunctuation ==
    /\ NoSuffixYet
    /\ \E i \in 2..(Len(nameB) + 1), c \in Punctuation : Edited(InsertAt(nameB, i, c))

\* the variant has a longer whitespace run (or leading or trailing blanks)
LengthenSpace ==
    /\ NoSuffixYet
    /\ \E i \in 1..(Len(nameB) + 1) :
          /\ IF i \in {1, Len(nameB) + 1} THEN TRUE ELSE nameB[i] \in WhiteSpace
          /\ Edited(InsertAt(nameB, i, " "))

\* the variant has a trailing generational suffix
AddSuffix ==
    /\ NoSuffixYet
    /\ \E suf \in TypedSuffixes : Edited(nameB \o suf)

CleanBoth ==
    /\ pcN = "typing"
    /\ canonA' = clean_name(nameA)
    /\ canonB' = clean_name(nameB)
    /\ pcN' = "cleaned"
    /\ UNCHANGED <<nameA, nameB, edits>>
    /\ UNCHANGED <<joinVars, mergeVars>>

NextName ==
    \/ ChangeCase
    \/ ChangeAccent
    \/ AddPunctuation
    \/ LengthenSpace
    \/ AddSuffix
    \/ CleanBoth

(***************************************************************************)
(* Dates: to_date_ymd (App_add_ids.py) and to_ymd (Append_yesterday...)    *)
(* A raw date cell is what the text looks like to the parser:              *)
(*   fmt "iso"  a text pd.to_datetime parses, e.g. "2025-08-13"            *)
(*   fmt "md"   month, non-digits, day, e.g. "8_13": pd.to_datetime raises *)
(*   fmt "junk" any other text;  fmt "nan" a missing cell                  *)
(***************************************************************************)
IsoDate(y, m, d) == [fmt |-> "iso", y |-> y, m |-> m, d |-> d]
MdDate(m, d)     == [fmt |-> "md", y |-> 0, m |-> m, d |-> d]
JunkDate         == [fmt |-> "junk", y |-> 0, m |-> 0, d |-> 0]
NanDate          == [fmt |-> "nan", y |-> 0, m |-> 0, d |-> 0]

\* the number_input default of both scripts
season_year == 2025

IsLeap(y) == (y % 4 = 0 /\ y % 100 # 0) \/ y % 400 = 0

DaysInMonth(y, m) ==
    CASE m \in {4, 6, 9, 11} -> 30
      [] m = 2               -> IF IsLeap(y) THEN 29 ELSE 28
      [] OTHER               -> 31

\* pd.to_datetime accepts the calendar date
ValidDate(y, m, d) == m \in 1..12 /\ d \in 1..DaysInMonth(y, m)

to_date_ymd(s, year) ==
    CASE s.fmt = "nan" -> NaT
      [] s.fmt = "iso" -> IF ValidDate(s.y, s.m, s.d)
                          THEN [y |-> s.y, m |-> s.m, d |-> s.d] ELSE NaT
      [] s.fmt = "md"  -> IF year # 0 /\ ValidDate(year, s.m, s.d)
                          THEN [y |-> year, m |-> s.m, d |-> s.d] ELSE NaT
      [] OTHER         -> NaT

(***************************************************************************)
(* Join mode: App_add_ids.py                                               *)
(***************************************************************************)
MaxLbRows  == 2
MaxMaps    == 2
MaxMapRows == 2

\* all sequences over S of a length in lo..hi
SeqsOf(S, lo, hi) == UNION {[1..n -> S] : n \in lo..hi}

NYY      == <<"N", "Y", "Y">>
NyyLower == <<"n", "y", "y">>
LadLower == <<"l", "a", "d">>
BosLower == <<"b", "o", "s">>

AJSmithJr    == <<"A", "J", " ", "S", "m", "i", "t", "h", " ", "J", "r">>
AJSmithLower == <<"a", "j", " ", "s", "m", "i", "t", "h">>

Id12345Float == <<"1", "2", "3", "4", "5", ".", "0">>
Id777        == <<"7", "7", "7">>

Aug13    == IsoDate(2025, 8, 13)
Aug13Md  == MdDate(8, 13)

\* ---- the uploads the model draws from
LbRow(d, n, t) == [game_date |-> d, player_name |-> n, team_code |-> t]

LbRowSet ==
    {LbRow(Aug13, n, t) : n \in {AJSmithJr, JoseDoe}, t \in {NyyLower, BosLower}}
        \cup {LbRow(JunkDate, AJSmithJr, NyyLower)}

LbAllCols == {"game_date", "player_name", "team_code", "HR"}

Leaderboards ==
    {[cols |-> LbAllCols, rows |-> r] : r \in SeqsOf(LbRowSet, 0, MaxLbRows)}
        \cup {[cols |-> LbAllCols \ {"team_code"},
               rows |-> <<LbRow(Aug13, AJSmithJr, NaN), LbRow(Aug13Md, JoseDoe, NaN)>>],
              [cols |-> LbAllCols \ {"game_date"},
               rows |-> <<LbRow(NanDate, AJSmithJr, NyyLower)>>],
              [cols |-> LbAllCols \ {"player_name"},
               rows |-> <<LbRow(Aug13, NaN, NyyLower)>>]}

MapRow(d, n, t, b) == [date |-> d, name |-> n, team |-> t, id |-> b]

MapRowSet ==
    {MapRow(Aug13Md, AJSmithLower, t, b) : t \in {NYY, LadLower}, b \in {Id12345Float, Id777}}
        \cup {MapRow(JunkDate, AJSmithLower, NYY, Id777)}

MapAllCols == {"game_date", "player_name", "team", "batter_id"}

MapFiles ==
    {[cols |-> MapAllCols, rows |-> r] : r \in SeqsOf(MapRowSet, 1, MaxMapRows)}
        \cup {[cols |-> {"Date", "Batter Name", "MLB_ID"},
               rows |-> <<MapRow(Aug13, AJSmith, NaN, Id777)>>],
              [cols |-> MapAllCols \ {"game_date"},
               rows |-> <<MapRow(NanDate, AJSmithLower, NYY, Id777)>>],
              [cols |-> MapAllCols \ {"player_name"},
               rows |-> <<MapRow(Aug13, NaN, NYY, Id777)>>],
              [cols |-> MapAllCols \ {"batter_id"},
               rows |-> <<MapRow(Aug13, AJSmithLower, NYY, NaN)>>]}

\* ---- column discovery of normalize_map
\* str(c).lower().replace(" ", "_") on the headers the uploads use
HeaderKey(c) ==
    CASE c = "Date"        -> "date"
      [] c = "Batter Name" -> "batter_name"
      [] c = "MLB_ID"      -> "mlb_id"
      [] OTHER             -> c

DateAliases == {"game_date", "date"}
NameAliases == {"player_name", "name", "batter_name"}
TeamAliases == {"team_code", "team", "team_abbr", "tm"}
IdAliases   == {"batter_id", "mlb_id", "player_id", "id"}

HasCol(df, aliases) == \E c \in df.cols : HeaderKey(c) \in aliases

TripleKey(r) == <<r.game_date_norm, r.player_name_norm, r.team_code_std>>
RelaxedKey(r) == <<r.game_date_norm, r.player_name_norm>>
TripleKeys(rows) == AsSeq([i \in 1..Len(rows) |-> TripleKey(rows[i])])
RelaxedKeys(rows) == AsSeq([i \in 1..Len(rows) |-> RelaxedKey(rows[i])])

\* the ValueError normalize_map raises, or None
MapError(df) ==
    CASE ~HasCol(df, DateAliases) -> "Mapping CSV missing a 'game_date' column."
      [] ~HasCol(df, NameAliases) -> "Mapping CSV missing a 'player_name' column."
      [] ~HasCol(df, IdAliases)   -> "Mapping CSV missing a 'batter_id' (or mlb_id/player_id) column."
      [] OTHER                    -> None

\* the columns normalize_map adds, row by row
MapNormRow(df, r) ==
    [game_date_norm   |-> to_date_ymd(r.date, season_year),
     player_name_norm |-> clean_name(astype_str(r.name)),
     team_code_std    |-> IF HasCol(df, TeamAliases) THEN std_team(astype_str(r.team))
                          ELSE <<>>,
     batter_id        |-> safe_str_id(r.id)]

\* what normalize_map returns for a file that has the required columns
normalize_map(df) ==
    LET all  == AsSeq([i \in 1..Len(df.rows) |-> MapNormRow(df, df.rows[i])])
        kept == SelectIdx(all, [i \in 1..Len(all) |-> all[i].game_date_norm # NaT])
    IN  DropDuplicatesLast(kept, TripleKeys(kept))

\* a loop that would end at the first file normalize_map rejects
BuiltUntilError(ms) ==
    LET firstBad == IF \E i \in 1..Len(ms) : MapError(ms[i]) # None
                    THEN CHOOSE i \in 1..Len(ms) :
                            /\ MapError(ms[i]) # None
                            /\ \A j \in 1..(i - 1) : MapError(ms[j]) = None
                    ELSE Len(ms) + 1
    IN  AsSeq([i \in 1..(firstBad - 1) |-> normalize_map(ms[i])])

\* for i, m in enumerate(maps, 1): try ... idmaps.append / except ... errors.append
BuiltMaps(ms) ==
    LET good == SelectIdx([i \in 1..Len(ms) |-> i], [i \in 1..Len(ms) |-> MapError(ms[i]) = None])
    IN  AsSeq([k \in 1..Len(good) |-> normalize_map(ms[good[k]])])

SkippedMaps(ms) ==
    LET bad == SelectIdx([i \in 1..Len(ms) |-> i], [i \in 1..Len(ms) |-> MapError(ms[i]) # None])
    IN  AsSeq([k \in 1..Len(bad) |-> [file |-> bad[k], error |-> MapError(ms[bad[k]])]])

\* the same concatenation de-duplicated with keep="first"
ConcatFirstWins(ims) ==
    LET rows == Flatten(ims)
        keys == TripleKeys(rows)
    IN  SelectIdx(rows, [i \in 1..Len(rows) |-> \A j \in 1..(i - 1) : keys[j] # keys[i]])

\* pd.concat(idmaps).drop_duplicates(subset=triple, keep="last")
ConcatDedupe(ims) ==
    LET rows == Flatten(ims)
    IN  DropDuplicatesLast(rows, TripleKeys(rows))

\* ---- the leaderboard's normalised columns
LbNormRow(df, r) ==
    [game_date        |-> r.game_date,
     player_name      |-> r.player_name,
     team_code        |-> r.team_code,
     game_date_norm   |-> to_date_ymd(r.game_date, season_year),
     player_name_norm |-> clean_name(astype_str(r.player_name)),
     team_code_std    |-> IF "team_code" \in df.cols THEN std_team(astype_str(r.team_code))
                          ELSE <<>>]

\* ---- DataFrame.merge(right, on=key, how="left"): for each left row, in order,
\* the batter_id of every right row with the same key, or one missing value
MatchesOf(key, right, rightKeys) ==
    LET hit == SelectIdx(right, [j \in 1..Len(right) |-> rightKeys[j] = key])
    IN  IF hit = <<>> THEN <<NaN>> ELSE AsSeq([k \in 1..Len(hit) |-> hit[k].batter_id])

WithId(row, b) ==
    [game_date        |-> row.game_date,
     player_name      |-> row.player_name,
     team_code        |-> row.team_code,
     game_date_norm   |-> row.game_date_norm,
     player_name_norm |-> row.player_name_norm,
     team_code_std    |-> row.team_code_std,
     batter_id        |-> b]

LeftMerge(left, leftKeys, right, rightKeys) ==
    Flatten([i \in 1..Len(left) |->
                LET ids == MatchesOf(leftKeys[i], right, rightKeys)
                IN  AsSeq([k \in 1..Len(ids) |-> WithId(left[i], ids[k])])])

\* fill: the batter_id column of the relaxed merge of the rows that need one
RelaxedFill(rows, mask, right) ==
    LET needing   == SelectIdx(rows, mask)
        rightKeys == RelaxedKeys(right)
    IN  Flatten([i \in 1..Len(needing) |->
                    MatchesOf(RelaxedKey(needing[i]), right, rightKeys)])

\* number of True entries of mask among the first i
RankIn(mask, i) == Cardinality({j \in 1..i : mask[j]})

\* an assignment of the whole column: the rows outside the mask lose their value
AssignAligned(m, mask, fill) ==
    [i \in 1..Len(m) |->
        [m[i] EXCEPT !.batter_id = IF mask[i] THEN fill[RankIn(mask, i)] ELSE NaN]]

\* m1.loc[need, "batter_id"] = fill.values
AssignWhereNeeded(m, mask, fill) ==
    [i \in 1..Len(m) |->
        IF mask[i] THEN [m[i] EXCEPT !.batter_id = fill[RankIn(mask, i)]] ELSE m[i]]

\* out: the norm columns dropped, batter_id as text
ExportRow(r) ==
    [game_date     |-> r.game_date,
     player_name   |-> r.player_name,
     team_code     |-> r.team_code,
     team_code_std |-> r.team_code_std,
     batter_id     |-> safe_str_id(IF isna(r.batter_id) THEN <<>> ELSE r.batter_id)]

\* ---- the script, section by section
InitJoin ==
    /\ lb \in Leaderboards
    /\ maps \in SeqsOf(MapFiles, 0, MaxMaps)
    /\ pc = "read"
    /\ lbn = <<>>
    /\ idmaps = <<>>
    /\ errors = <<>>
    /\ idmap = <<>>
    /\ m1 = <<>>
    /\ need = <<>>
    /\ output = NoOutput
    /\ message = None

IdleJoin ==
    /\ lb = [cols |-> {}, rows |-> <<>>]
    /\ maps = <<>>
    /\ pc = "idle"
    /\ lbn = <<>>
    /\ idmaps = <<>>
    /\ errors = <<>>
    /\ idmap = <<>>
    /\ m1 = <<>>
    /\ need = <<>>
    /\ output = NoOutput
    /\ message = None

Halt(msg) ==
    /\ pc' = "stopped"
    /\ message' = msg

\* lines 76-88: both uploads are needed
ReadInputs ==
    /\ pc = "read"
    /\ IF maps = <<>>
       THEN Halt("Upload one or more 'today features' CSVs")
       ELSE pc' = "normalize_lb" /\ message' = message
    /\ UNCHANGED <<lb, maps, lbn, idmaps, errors, idmap, m1, need, output>>
    /\ UNCHANGED <<mergeVars, nameVars>>

\* lines 90-104: required columns, the three normalised columns, the date check
NormalizeLeaderboard ==
    /\ pc = "normalize_lb"
    /\ LET rows == AsSeq([i \in 1..Len(lb.rows) |-> LbNormRow(lb, lb.rows[i])])
       IN  CASE "game_date" \notin lb.cols ->
                   /\ Halt("Leaderboard missing required column: game_date")
                   /\ lbn' = lbn
             [] "game_date" \in lb.cols /\ "player_name" \notin lb.cols ->
                   /\ Halt("Leaderboard missing required column: player_name")
                   /\ lbn' = lbn
             [] OTHER ->
                   /\ lbn' = rows
                   /\ IF \A i \in 1..Len(rows) : rows[i].game_date_norm = NaT
                      THEN Halt("Could not parse any leaderboard dates.")
                      ELSE pc' = "build" /\ message' = message
    /\ UNCHANGED <<lb, maps, idmaps, errors, idmap, m1, need, output>>
    /\ UNCHANGED <<mergeVars, nameVars>>

\* lines 149-162: one identifier map per valid file, a warning for the others
BuildIdMaps ==
    /\ pc = "build"
    /\ idmaps' = BuiltMaps(maps)
    /\ errors' = SkippedMaps(maps)
    /\ IF idmaps' = <<>>
       THEN Halt("No valid mapping tables were built from the uploaded CSVs.")
       ELSE pc' = "concat" /\ message' = message
    /\ UNCHANGED <<lb, maps, lbn, idmap, m1, need, output>>
    /\ UNCHANGED <<mergeVars, nameVars>>

\* lines 164-165
ConcatIdMaps ==
    /\ pc = "concat"
    /\ idmap' = ConcatDedupe(idmaps)
    /\ pc' = "stage1"
    /\ UNCHANGED <<lb, maps, lbn, idmaps, errors, m1, need, output, message>>
    /\ UNCHANGED <<mergeVars, nameVars>>

\* lines 171-178: strict merge on the triple
Stage1 ==
    /\ pc = "stage1"
    /\ m1' = LeftMerge(lbn, TripleKeys(lbn), idmap, TripleKeys(idmap))
    /\ pc' = "stage2"
    /\ UNCHANGED <<lb, maps, lbn, idmaps, errors, idmap, need, output, message>>
    /\ UNCHANGED <<mergeVars, nameVars>>

\* lines 181-188: the rows still without identifier are re-joined on (date, name);
\* the assignment raises ValueError when fill has more values than need has rows
Stage2 ==
    /\ pc = "stage2"
    /\ LET mask == AsSeq([i \in 1..Len(m1) |-> isna(m1[i].batter_id)])
           fill == RelaxedFill(lbn, mask, idmap)
       IN  /\ need' = mask
           /\ IF \E i \in 1..Len(mask) : mask[i]
              THEN IF Len(fill) = RankIn(mask, Len(mask))
                   THEN /\ m1' = AssignWhereNeeded(m1, mask, fill)
                        /\ pc' = "export"
                        /\ message' = message
                   ELSE /\ m1' = m1
                        /\ pc' = "crashed"
                        /\ message' = "ValueError"
              ELSE /\ m1' = m1
                   /\ pc' = "export"
                   /\ message' = message
    /\ UNCHANGED <<lb, maps, lbn, idmaps, errors, idmap, output>>
    /\ UNCHANGED <<mergeVars, nameVars>>

\* lines 213-224: the download
Export ==
    /\ pc = "export"
    /\ output' = [i \in 1..Len(m1) |-> ExportRow(m1[i])]
    /\ pc' = "done"
    /\ UNCHANGED <<lb, maps, lbn, idmaps, errors, idmap, m1, need, message>>
    /\ UNCHANGED <<mergeVars, nameVars>>

NextJoin ==
    \/ ReadInputs
    \/ NormalizeLeaderboard
    \/ BuildIdMaps
    \/ ConcatIdMaps
    \/ Stage1
    \/ Stage2
    \/ Export

(***************************************************************************)
(* Merge mode: Append_yesterday_to_merged.py                               *)
(***************************************************************************)
MaxOldRows == 2
MaxNewRows == 2

JDoe    == <<"J", " ", "D", "o", "e">>
JohnDoe == <<"J", "o", "h", "n", " ", "D", "o", "e">>

Id100Float == <<"1", "0", "0", ".", "0">>
Id100      == <<"1", "0", "0">>
Id200      == <<"2", "0", "0">>

Aug14   == IsoDate(2025, 8, 14)
Aug15Md == MdDate(8, 15)

\* the stat column of the rows of the accumulated table and of the new day
OldStat == <<"5">>
NewStat == <<"9">>

MergeRow(d, n, b, v) == [date |-> d, name |-> n, id |-> b, stat |-> v]

MergeRowSet(v) ==
    {MergeRow(Aug14, n, b, v) : n \in {JDoe, JohnDoe, NaN}, b \in {Id100Float, Id200, NaN}}
        \cup {MergeRow(JunkDate, JDoe, b, v) : b \in {Id100Float, Id200}}
        \cup {MergeRow(Aug15Md, n, NaN, v) : n \in {JDoe, NaN}}

MergeAllCols == {"game_date", "player_name", "batter_id", "stat"}

\* the tables one side may upload: every column; aliases and no batter_id;
\* no player name; no date column
Tables(v, maxRows) ==
    {[cols |-> MergeAllCols, rows |-> r] : r \in SeqsOf(MergeRowSet(v), 0, maxRows)}
        \cup {[cols |-> {"Date", "Player", "stat"}, rows |-> r] :
                r \in SeqsOf({x \in MergeRowSet(v) : x.id = NaN}, 0, maxRows)}
        \cup {[cols |-> {"game_date", "batter_id", "stat"},
               rows |-> <<MergeRow(Aug14, NaN, Id100, v)>>],
              [cols |-> {"player_name", "batter_id", "stat"},
               rows |-> <<MergeRow(NanDate, JDoe, Id100, v)>>]}

to_ymd(s, fallback_year) ==
    CASE s.fmt = "nan" -> NaT
      [] s.fmt = "iso" -> IF ValidDate(s.y, s.m, s.d)
                          THEN [y |-> s.y, m |-> s.m, d |-> s.d] ELSE NaT
      [] s.fmt = "md"  -> IF fallback_year # 0 /\ ValidDate(fallback_year, s.m, s.d)
                          THEN [y |-> fallback_year, m |-> s.m, d |-> s.d] ELSE NaT
      [] OTHER         -> NaT

\* "game_date", else the first of the candidates of normalize
DateCandidates == <<"game_date", "date", "Date", "GAME_DATE", "game day">>
NameCandidates == <<"player_name", "player name", "Player", "PLAYER_NAME", "name", "Name">>

HasAny(cols, cands) == \E k \in 1..Len(cands) : cands[k] \in cols

\* astype(str).str.replace(r"\.0$", ""), then "", "nan", "NaN" become pd.NA
NormalizeId(v) ==
    LET t == astype_str(v)
        u == IF endswith(t, <<".", "0">>) THEN SubSeq(t, 1, Len(t) - 2) ELSE t
    IN  IF u \in {<<>>, <<"n", "a", "n">>, <<"N", "a", "N">>} THEN NaN ELSE u

\* normalize(df, season_year) of a table that has a date column
normalize(df, year) ==
    [hasName |-> HasAny(df.cols, NameCandidates),
     hasId   |-> "batter_id" \in df.cols,
     rows    |-> [i \in 1..Len(df.rows) |->
                    [game_date   |-> to_ymd(df.rows[i].date, year),
                     player_name |-> IF HasAny(df.cols, NameCandidates)
                                     THEN df.rows[i].name ELSE NaN,
                     batter_id   |-> IF "batter_id" \in df.cols
                                     THEN NormalizeId(df.rows[i].id) ELSE NaN,
                     stat        |-> df.rows[i].stat]]]

\* Series.astype("string") of the date column
DateString(d) == <<ToString(d.y), "-", ToString(d.m), "-", ToString(d.d)>>

\* a missing (pd.NA) key: "+" on string columns gives NA when the date is NA
NAKey == <<"<NA>">>

Sep == <<"|", "|">>

fillna(v) == IF isna(v) THEN <<>> ELSE v

\* the _key column; nameCol tells whether out has a player_name column
DedupeKey(r, idCol, nameCol) ==
    IF idCol
    THEN IF r.game_date = NaT THEN NAKey
         ELSE DateString(r.game_date) \o Sep \o fillna(r.batter_id) \o Sep
                 \o (IF nameCol THEN fillna(r.player_name) ELSE <<>>)
    ELSE IF r.game_date = NaT \/ (nameCol /\ isna(r.player_name)) THEN NAKey
         ELSE DateString(r.game_date) \o Sep
                 \o (IF nameCol THEN r.player_name ELSE <<>>)

\* pd.concat([A, B], ignore_index=True) after the reindex to the union of columns
Concat(old, new) == old.rows \o new.rows

\* pd.Series([""], index=out.index), the default handed to out.get on lines 74
\* and 78, is built before out.get is called: the constructor raises ValueError
\* unless the one-element list is as long as the index
DefaultSeriesRaises(rows) == Len(rows) # 1

\* what dedupe_concat returns when it returns
dedupe_concat(old, new) ==
    LET rows    == Concat(old, new)
        idCol   == old.hasId \/ new.hasId
        nameCol == old.hasName \/ new.hasName
    IN  DropDuplicatesLast(rows, AsSeq([i \in 1..Len(rows) |->
                                        DedupeKey(rows[i], idCol, nameCol)]))

\* line 119 and the download: the date as YYYY-MM-DD text
ExportRowM(r) ==
    [game_date   |-> IF r.game_date = NaT THEN NaN ELSE DateString(r.game_date),
     player_name |-> r.player_name,
     batter_id   |-> r.batter_id,
     stat        |-> r.stat]

EmptyTable == [hasName |-> FALSE, hasId |-> FALSE, rows |-> <<>>]

InitMerge ==
    /\ merged_raw \in Tables(OldStat, MaxOldRows)
    /\ yday_raw \in Tables(NewStat, MaxNewRows)
    /\ merged_df = EmptyTable
    /\ yday_df = EmptyTable
    /\ pcM = "normalize_merged"
    /\ outM = <<>>
    /\ outputM = NoOutput
    /\ messageM = None

IdleMerge ==
    /\ merged_raw = [cols |-> {}, rows |-> <<>>]
    /\ yday_raw = [cols |-> {}, rows |-> <<>>]
    /\ merged_df = EmptyTable
    /\ yday_df = EmptyTable
    /\ pcM = "idle"
    /\ outM = <<>>
    /\ outputM = NoOutput
    /\ messageM = None

\* line 99
NormalizeMerged ==
    /\ pcM = "normalize_merged"
    /\ IF HasAny(merged_raw.cols, DateCandidates)
       THEN /\ merged_df' = normalize(merged_raw, season_year)
            /\ pcM' = "normalize_yday"
            /\ messageM' = messageM
       ELSE /\ merged_df' = merged_df
            /\ pcM' = "stopped"
            /\ messageM' = "Could not find a date column (expected 'game_date')."
    /\ UNCHANGED <<merged_raw, yday_raw, yday_df, outM, outputM>>
    /\ UNCHANGED <<joinVars, nameVars>>

\* line 100
NormalizeYday ==
    /\ pcM = "normalize_yday"
    /\ IF HasAny(yday_raw.cols, DateCandidates)
       THEN /\ yday_df' = normalize(yday_raw, season_year)
            /\ pcM' = "dedupe"
            /\ messageM' = messageM
       ELSE /\ yday_df' = yday_df
            /\ pcM' = "stopped"
            /\ messageM' = "Could not find a date column (expected 'game_date')."
    /\ UNCHANGED <<merged_raw, yday_raw, merged_df, outM, outputM>>
    /\ UNCHANGED <<joinVars, nameVars>>

\* line 116
DedupeConcat ==
    /\ pcM = "dedupe"
    /\ IF DefaultSeriesRaises(Concat(merged_df, yday_df))
       THEN /\ outM' = outM
            /\ pcM' = "crashed"
            /\ messageM' = "ValueError"
       ELSE /\ outM' = dedupe_concat(merged_df, yday_df)
            /\ pcM' = "export"
            /\ messageM' = messageM
    /\ UNCHANGED <<merged_raw, yday_raw, merged_df, yday_df, outputM>>
    /\ UNCHANGED <<joinVars, nameVars>>

\* lines 119-132
ExportMerged ==
    /\ pcM = "export"
    /\ outputM' = [i \in 1..Len(outM) |-> ExportRowM(outM[i])]
    /\ pcM' = "done"
    /\ UNCHANGED <<merged_raw, yday_raw, merged_df, yday_df, outM, messageM>>
    /\ UNCHANGED <<joinVars, nameVars>>

NextMerge ==
    \/ NormalizeMerged
    \/ NormalizeYday
    \/ DedupeConcat
    \/ ExportMerged

(***************************************************************************)
(* Specifications                                                          *)
(***************************************************************************)
StartJoin  == InitJoin /\ IdleMerge /\ IdleName
StartMerge == InitMerge /\ IdleJoin /\ IdleName
StartName  == InitName /\ IdleJoin /\ IdleMerge

SpecJoin  == StartJoin /\ [][NextJoin]_vars
SpecMerge == StartMerge /\ [][NextMerge]_vars
SpecName  == StartName /\ [][NextName]_vars

(***************************************************************************)
(* Join mode: properties                                                   *)
(***************************************************************************)
\* the file has the columns normalize_map requires
HasRequiredCols(f) ==
    HasCol(f, DateAliases) /\ HasCol(f, NameAliases) /\ HasCol(f, IdAliases)

ValidFileIdx == {i \in 1..Len(maps) : HasRequiredCols(maps[i])}

LbHasRequiredCols == {"game_date", "player_name"} \subseteq lb.cols

\* every row of every valid mapping file, in upload order, with its normalised
\* key, the rows without a parseable date left out
UploadedRows ==
    Flatten(AsSeq([i \in 1..Len(maps) |->
        IF HasRequiredCols(maps[i])
        THEN SelectIdx(AsSeq([k \in 1..Len(maps[i].rows) |->
                                MapNormRow(maps[i], maps[i].rows[k])]),
                       [k \in 1..Len(maps[i].rows) |->
                            to_date_ymd(maps[i].rows[k].date, season_year) # NaT])
        ELSE <<>>]))

IsLastOfKey(rows, k) ==
    \A l \in (k + 1)..Len(rows) : TripleKey(rows[l]) # TripleKey(rows[k])

IdMapBuilt == pc \in {"stage1", "stage2", "export", "crashed", "done"}
Stage2Ran  == pc \in {"export", "crashed", "done"}
RunEnded   == pc \in {"done", "crashed", "stopped"}

\* C1: in every run whose leaderboard has game_date and player_name and that
\* has a valid mapping file (and, read in the code's favour, a leaderboard date
\* that parses), the run ends with an exported table that holds every
\* leaderboard row exactly once, in order, unmatched rows with an empty
\* identifier.
C1_EveryRowExported ==
    (/\ RunEnded
     /\ LbHasRequiredCols
     /\ ValidFileIdx # {}
     /\ \E i \in 1..Len(lb.rows) : to_date_ymd(lb.rows[i].game_date, season_year) # NaT)
        => /\ output # NoOutput
           /\ Len(output) = Len(lb.rows)
           /\ \A i \in 1..Len(lb.rows) :
                 /\ output[i].game_date = lb.rows[i].game_date
                 /\ output[i].player_name = lb.rows[i].player_name
                 /\ output[i].team_code = lb.rows[i].team_code
                 /\ isna(m1[i].batter_id) => output[i].batter_id = <<>>

\* C2: a step never changes a row of the merged table that already carries an
\* identifier: what stage 1 matched, stage 2 leaves as it is, and stage 2
\* writes only to rows without identifier.
C2_Stage1Kept ==
    [][\A i \in 1..Len(m1) :
          ~isna(m1[i].batter_id) => (i \in 1..Len(m1') /\ m1'[i] = m1[i])]_vars

\* a row matched in stage 1 and another row filled in stage 2
C2_Witness ==
    /\ pc = "export"
    /\ \E i, j \in 1..Len(m1) :
          /\ ~need[i]
          /\ need[j]
          /\ ~isna(m1[j].batter_id)

\* C6: the combined identifier map has one entry per (date, name, team), and
\* its entries are exactly the last uploaded row of each key (files in upload
\* order, rows in file order).
C6_IdMapLastWins ==
    IdMapBuilt =>
        \A rows \in {UploadedRows} :
            /\ \A i, j \in 1..Len(idmap) :
                  i # j => TripleKey(idmap[i]) # TripleKey(idmap[j])
            /\ \A k \in 1..Len(rows) :
                  IsLastOfKey(rows, k) => \E i \in 1..Len(idmap) : idmap[i] = rows[k]
            /\ \A i \in 1..Len(idmap) :
                  \E k \in 1..Len(rows) : IsLastOfKey(rows, k) /\ idmap[i] = rows[k]

\* a key uploaded in two files with different identifiers, the later one kept
C6_Witness ==
    /\ pc = "stage1"
    /\ Len(idmaps) = 2
    /\ \E a \in 1..Len(idmaps[1]), b \in 1..Len(idmaps[2]), i \in 1..Len(idmap) :
          /\ TripleKey(idmaps[1][a]) = TripleKey(idmaps[2][b])
          /\ idmaps[1][a].batter_id # idmaps[2][b].batter_id
          /\ idmap[i] = idmaps[2][b]

C8_RelaxedLastWins ==
    Stage2Ran =>
        \A i \in 1..Len(need) :
            LET hits == SelectIdx(idmap, [e \in 1..Len(idmap) |->
                                            RelaxedKey(idmap[e]) = RelaxedKey(lbn[i])])
            IN  (need[i] /\ Len(hits) > 1)
                    => /\ pc # "crashed"
                       /\ m1[i].batter_id = hits[Len(hits)].batter_id

(***************************************************************************)
(* clean_name: properties                                                  *)
(***************************************************************************)
\* C5: two spellings that differ only in case, accents, the punctuation
\* . - ', the length of whitespace runs or a trailing generational suffix
\* have the same canonical name.
C5_SpellingsAgree == pcN = "cleaned" => canonA = canonB

(***************************************************************************)
(* Merge mode: properties                                                  *)
(***************************************************************************)
OldRows == merged_df.rows
NewRows == yday_df.rows
AllRows == OldRows \o NewRows

MergeEnded == pcM \in {"done", "crashed"}

AnyId == \E i \in 1..Len(AllRows) : ~isna(AllRows[i].batter_id)

\* the same date and the same identifier, or the same date and the same
\* player name when the rows have no identifier
SameEntity(a, b) ==
    /\ a.game_date = b.game_date
    /\ IF ~isna(a.batter_id) \/ ~isna(b.batter_id)
       THEN a.batter_id = b.batter_id
       ELSE a.player_name = b.player_name

\* C3: when an old row and a new row have the same composite key and differ
\* in other columns, the output has exactly one row of that key, and it is the
\* new row.
C3_NewerWins ==
    MergeEnded =>
        \A i \in 1..Len(OldRows), j \in 1..Len(NewRows) :
            (SameEntity(OldRows[i], NewRows[j]) /\ OldRows[i] # NewRows[j])
                => /\ pcM = "done"
                   /\ Cardinality({k \in 1..Len(outM) : SameEntity(outM[k], NewRows[j])}) = 1
                   /\ \E k \in 1..Len(outM), n \in 1..Len(NewRows) :
                         /\ SameEntity(outM[k], NewRows[j])
                         /\ outM[k] = NewRows[n]
                         /\ outputM[k] = ExportRowM(NewRows[n])

\* C4: when no old row has the composite key of a new row, the output has as
\* many rows as the two tables together.
C4_DisjointAddsUp ==
    (/\ MergeEnded
     /\ \A i \in 1..Len(OldRows), j \in 1..Len(NewRows) : ~SameEntity(OldRows[i], NewRows[j]))
        => /\ pcM = "done"
           /\ Len(outputM) = Len(OldRows) + Len(NewRows)

\* C9: when a row carries an identifier, two rows of the same date and the same
\* non-empty identifier leave one row, the later one, whatever their names;
\* when no row carries an identifier, the same holds for rows of the same date
\* and player name.
C9_KeyIsDateAndId ==
    MergeEnded =>
        \A i, j \in 1..Len(AllRows) :
            (/\ i < j
             /\ AllRows[i].game_date = AllRows[j].game_date
             /\ IF AnyId
                THEN ~isna(AllRows[i].batter_id) /\ AllRows[i].batter_id = AllRows[j].batter_id
                ELSE AllRows[i].player_name = AllRows[j].player_name)
                => /\ pcM = "done"
                   /\ Cardinality({k \in 1..Len(outM) :
                                      /\ outM[k].game_date = AllRows[j].game_date
                                      /\ IF AnyId
                                         THEN outM[k].batter_id = AllRows[j].batter_id
                                         ELSE outM[k].player_name = AllRows[j].player_name}) = 1

\* C10: a row with no later row of the same date and the same identifier or
\* player name is in the output.
C10_OnlyDuplicatesDropped ==
    MergeEnded =>
        \A i \in 1..Len(AllRows) :
            (\A j \in (i + 1)..Len(AllRows) : ~SameEntity(AllRows[i], AllRows[j]))
                => /\ pcM = "done"
                   /\ \E k \in 1..Len(outM) :
                         /\ outM[k] = AllRows[i]
                         /\ outputM[k] = ExportRowM(AllRows[i])

====
